---- MODULE Spec2Model ----
(***************************************************************************)
(* Pin registry, DTGPIOModule, ODroidCXAnalogModule and OdroidCXDriver of  *)
(* hwio, as a state machine.  Every handler is a function from a program   *)
(* state record to a result record [st, err, ...]; an action applies one   *)
(* handler to the current state.  ret is the observer's record of the last *)
(* call and of what it returned; a specification names the calls it        *)
(* observes, and the record of every other call is left empty.  conc holds *)
(* two goroutines that run calls of the gpio module statement by statement *)
(* at the same time; everywhere else a call runs from entry to return.     *)
(***************************************************************************)
EXTENDS Integers, Sequences, FiniteSets, TLC

VARIABLES config, phase, assignedPins, gpioOpenPins, analogInitialised,
          analogOpenPins, files, exported, level, ret, conc

vars == <<config, phase, assignedPins, gpioOpenPins, analogInitialised,
          analogOpenPins, files, exported, level, ret, conc>>

(* ---------------------------------------------------------------- bounds *)

\* number of times the value file of one pin is opened in one run
MaxFiles == 2

\* number of operating-system calls that are made to fail inside one call
\* of a handler
MaxFaults == 1

\* largest argument handed to DigitalWrite
MaxValue == 2

(* ------------------------------------------------------------- constants *)

Low == 0
High == 1
Input == "Input"
Output == "Output"
Modes == {Input, Output}

\* PinIOMode of a DTGPIOModuleOpenPin whose mode field was never assigned
\* (Go zero value; Input is the first constant of the enumeration)
ZeroMode == Input

NoModule == "none"
ModuleNames == {"gpio", "analog", "i2ca"}

\* a nil *os.File
NilFile == 0

\* openPins[pin] == nil of a DTGPIOModule, and of an ODroidCXAnalogModule
NoOpenPin ==
    [open |-> FALSE, gpioLogical |-> 0, gpioBaseName |-> 0,
     mode |-> ZeroMode, valueFile |-> NilFile]

NoAnalogPin ==
    [open |-> FALSE, analogLogical |-> 0, valueFile |-> NilFile]

\* bytes a value file can hold at offset 0
Bytes == {"0", "1", "x"}

(* ------------------------------------------------------------- pin table *)

\* Rows 0, 3, 19 and 37 of the pin table of each board revision; "custom"
\* is a table handed to the modules by SetOptions in which one pin carries
\* both the gpio and the analog tag.
PinConfigs(cfg) ==
    CASE cfg = "rev1" ->
           << [modules |-> {"unassignable"}, gpioLogical |-> 0, analogLogical |-> 0],
              [modules |-> {"i2ca"}, gpioLogical |-> 0, analogLogical |-> 0],
              [modules |-> {"spi"}, gpioLogical |-> 0, analogLogical |-> 0],
              [modules |-> {"analog"}, gpioLogical |-> 26, analogLogical |-> 1] >>
      [] cfg = "rev2" ->
           << [modules |-> {"unassignable"}, gpioLogical |-> 0, analogLogical |-> 0],
              [modules |-> {"i2ca"}, gpioLogical |-> 0, analogLogical |-> 0],
              [modules |-> {"gpio"}, gpioLogical |-> 235, analogLogical |-> 0],
              [modules |-> {"analog"}, gpioLogical |-> 26, analogLogical |-> 1] >>
      [] OTHER ->
           << [modules |-> {"unassignable"}, gpioLogical |-> 0, analogLogical |-> 0],
              [modules |-> {"i2ca"}, gpioLogical |-> 0, analogLogical |-> 0],
              [modules |-> {"gpio", "analog"}, gpioLogical |-> 235, analogLogical |-> 0],
              [modules |-> {"spi"}, gpioLogical |-> 0, analogLogical |-> 0] >>

Configs == {"rev1", "rev2", "custom"}
Boards == {"rev1", "rev2"}

\* Pin(i) of row i of the table
Pins == 0 .. 3

PinConf(cfg, pin) == PinConfigs(cfg)[pin + 1]

usedBy(cfg, pin, module) == module \in PinConf(cfg, pin).modules

\* the definedPins of each module, as the get...Options functions build them
definedPins(cfg, module) == {p \in Pins : usedBy(cfg, p, module)}

gpioLogical(cfg, pin) == PinConf(cfg, pin).gpioLogical

analogLogical(cfg, pin) == PinConf(cfg, pin).analogLogical

GpioNumbers == {gpioLogical(c, p) : c \in Configs, p \in Pins}

(* --------------------------------------------------------- program state *)

\* the program state the handlers transform
Cur ==
    [config |-> config, assignedPins |-> assignedPins,
     gpioOpenPins |-> gpioOpenPins, analogInitialised |-> analogInitialised,
     analogOpenPins |-> analogOpenPins, files |-> files,
     exported |-> exported, level |-> level]

Becomes(s) ==
    /\ config' = s.config
    /\ assignedPins' = s.assignedPins
    /\ gpioOpenPins' = s.gpioOpenPins
    /\ analogInitialised' = s.analogInitialised
    /\ analogOpenPins' = s.analogOpenPins
    /\ files' = s.files
    /\ exported' = s.exported
    /\ level' = s.level

\* A result: the state left behind, whether an error is returned, and hit,
\* the operating-system calls that were made to fail on the way.
Res(s, err, hit) == [st |-> s, err |-> err, hit |-> hit]
Ok(s) == Res(s, FALSE, {})
Fail(s) == Res(s, TRUE, {})

(* ------------------------------------------------------ operating system *)

\* The files opened for a pin are files[pin]; a *os.File of the pin is an
\* index into it.
\* os.OpenFile: a new *os.File, or nil and an error
OpenFile(s, pin, path, flag, fails) ==
    IF fails
    THEN [st |-> s, err |-> TRUE, file |-> NilFile]
    ELSE [st |-> [s EXCEPT !.files[pin] =
                     Append(@, [path |-> path, flag |-> flag, open |-> TRUE])],
          err |-> FALSE, file |-> Len(s.files[pin]) + 1]

\* (*os.File).Close: ErrInvalid on nil, an error on a closed file; of a
\* closed file nothing is kept but its path
FileClose(s, pin, f) ==
    IF f = NilFile THEN Fail(s)
    ELSE IF ~s.files[pin][f].open THEN Fail(s)
    ELSE Ok([s EXCEPT !.files[pin][f] = [path |-> @.path, flag |-> "", open |-> FALSE]])

\* whether a ReadAt on file f of the pin can return bytes
Readable(s, pin, f) ==
    /\ f # NilFile
    /\ s.files[pin][f].open
    /\ s.files[pin][f].flag = "r"
    /\ s.files[pin][f].path[1] = "gpio" => s.files[pin][f].path[2] \in s.exported

\* whether a write of a level token to file f of the pin reaches the device
Writable(s, pin, f) ==
    /\ f # NilFile
    /\ s.files[pin][f].open
    /\ s.files[pin][f].flag = "w"
    /\ s.files[pin][f].path[1] = "gpio"
    /\ s.files[pin][f].path[2] \in s.exported

(* -------------------------------------------------------------- registry *)

AssignPin(s, pin, module) ==
    IF s.assignedPins[pin] \notin {NoModule, module}
    THEN Fail(s)
    ELSE Ok([s EXCEPT !.assignedPins[pin] = module])

UnassignPin(s, pin) ==
    IF s.assignedPins[pin] = NoModule
    THEN Fail(s)
    ELSE Ok([s EXCEPT !.assignedPins[pin] = NoModule])

(* ---------------------------------------------------------- DTGPIOModule *)

makeOpenGPIOPin(s, pin) ==
    IF pin \notin definedPins(s.config, "gpio")
    THEN Fail(s)
    ELSE Ok([s EXCEPT !.gpioOpenPins[pin] =
                 [open |-> TRUE, gpioLogical |-> gpioLogical(s.config, pin),
                  gpioBaseName |-> 0, mode |-> ZeroMode, valueFile |-> NilFile]])

\* fileExists(bn) is membership in exported; the write to the export file
\* fails when the fault "export" is injected
gpioExport(s, pin, faults) ==
    LET n == s.gpioOpenPins[pin].gpioLogical
        named(t) == [t EXCEPT !.gpioOpenPins[pin].gpioBaseName = n]
    IN  IF n \notin s.exported
        THEN IF "export" \in faults
             THEN Res(s, TRUE, {"export"})
             ELSE Ok(named([s EXCEPT !.exported = @ \cup {n}]))
        ELSE Ok(named(s))

\* the write to the unexport file fails for a number that is not exported
\* and when the fault "unexport" is injected
gpioUnexport(s, pin, faults) ==
    LET n == s.gpioOpenPins[pin].gpioLogical
    IN  IF n \notin s.exported
        THEN Fail(s)
        ELSE IF "unexport" \in faults
        THEN Res(s, TRUE, {"unexport"})
        ELSE Ok([s EXCEPT !.exported = @ \ {n}])

\* the result of the write to the direction file (an error when the fault
\* "direction" is injected) is overwritten by the result of os.OpenFile
gpioDirection(s, pin, dir, faults) ==
    IF dir \notin {"in", "out"}
    THEN Fail(s)
    ELSE LET n == s.gpioOpenPins[pin].gpioBaseName
             flag == IF dir = "in" THEN "r" ELSE "w"
             o == OpenFile(s, pin, <<"gpio", n>>, flag,
                           n \notin s.exported \/ "open" \in faults)
         IN  Res([o.st EXCEPT !.gpioOpenPins[pin].valueFile = o.file],
                 o.err,
                 faults \cap (IF n \in s.exported THEN {"direction", "open"}
                                                 ELSE {"direction"}))

\* ClosePin without the final UnassignPin
ClosePinKeepsOwner(s, pin, faults) ==
    LET openPin == s.gpioOpenPins[pin]
    IN  IF ~openPin.open
        THEN Fail(s)
        ELSE LET u == gpioUnexport(s, pin, faults)
             IN  IF u.err
                 THEN u
                 ELSE LET c == FileClose(u.st, pin, openPin.valueFile)
                      IN  IF c.err
                          THEN c
                          ELSE Ok([c.st EXCEPT !.gpioOpenPins[pin] = NoOpenPin])

\* ClosePin giving up the registry entry when the unexport fails
ClosePinUnassigns(s, pin, faults) ==
    LET openPin == s.gpioOpenPins[pin]
    IN  IF ~openPin.open
        THEN Fail(s)
        ELSE LET u == gpioUnexport(s, pin, faults)
             IN  IF u.err
                 THEN Res(UnassignPin(u.st, pin).st, TRUE, u.hit)
                 ELSE LET c == FileClose(u.st, pin, openPin.valueFile)
                      IN  IF c.err
                          THEN c
                          ELSE UnassignPin([c.st EXCEPT !.gpioOpenPins[pin] = NoOpenPin],
                                           pin)

ClosePin(s, pin, faults) ==
    LET openPin == s.gpioOpenPins[pin]
    IN  IF ~openPin.open
        THEN Fail(s)
        ELSE LET u == gpioUnexport(s, pin, faults)
             IN  IF u.err
                 THEN u
                 ELSE LET c == FileClose(u.st, pin, openPin.valueFile)
                      IN  IF c.err
                          THEN c
                          ELSE UnassignPin([c.st EXCEPT !.gpioOpenPins[pin] = NoOpenPin],
                                           pin)

\* the package function ClosePin(pin): the close path of the gpio module
PkgClosePin(s, pin, faults) == ClosePin(s, pin, faults)

\* PinMode once the pin is assigned: the open pin object, the export, the
\* direction and the mode
PinModeHandle(s, pin, mode, faults) ==
    LET m == makeOpenGPIOPin(s, pin)
    IN  IF m.err
        THEN m
        ELSE LET x == gpioExport(m.st, pin, faults)
             IN  IF x.err
                 THEN x
                 ELSE LET d == gpioDirection(x.st, pin,
                                 IF mode = Output THEN "out" ELSE "in",
                                 faults)
                      IN  IF d.err
                          THEN d
                          ELSE Res([d.st EXCEPT !.gpioOpenPins[pin].mode = mode],
                                   FALSE, d.hit)

\* PinModeAssign without the return on the error of AssignPin
PinModeAssignUnchecked(s, pin, mode, faults) ==
    PinModeHandle(AssignPin(s, pin, "gpio").st, pin, mode, faults)

\* PinMode from the assign on, in the state the close path left
PinModeAssign(s, pin, mode, faults) ==
    LET a == AssignPin(s, pin, "gpio")
    IN  IF a.err
        THEN a
        ELSE PinModeHandle(a.st, pin, mode, faults)

\* PinMode without the test of definedPins
PinModeAnyPin(s, pin, mode, faults) ==
    LET oldOpenPin == s.gpioOpenPins[pin]
        c == IF oldOpenPin.open /\ mode # oldOpenPin.mode
             THEN PkgClosePin(s, pin, faults)
             ELSE Ok(s)
        r == PinModeAssign(c.st, pin, mode, faults)
    IN  Res(r.st, r.err, c.hit \cup r.hit)

PinMode(s, pin, mode, faults) ==
    IF pin \notin definedPins(s.config, "gpio")
    THEN Fail(s)
    ELSE LET oldOpenPin == s.gpioOpenPins[pin]
             c == IF oldOpenPin.open /\ mode # oldOpenPin.mode
                  THEN PkgClosePin(s, pin, faults)
                  ELSE Ok(s)
             r == PinModeAssign(c.st, pin, mode, faults)
         IN  Res(r.st, r.err, c.hit \cup r.hit)

\* Token taking 1 alone for the high level
TokenOfOne(value) == IF value = 1 THEN "1" ELSE "0"

\* the character gpioSetValue hands to WriteString
Token(value) == IF value = 0 THEN "0" ELSE "1"

LevelOf(tok) == IF tok = "1" THEN High ELSE Low

\* tok is the string written after the seek to offset 0 ("" when the
\* function returned before the write), acc whether the device took it
gpioSetValue(s, pin, value, faults) ==
    LET f == s.gpioOpenPins[pin].valueFile
    IN  IF f = NilFile
        THEN [st |-> s, err |-> TRUE, hit |-> {}, tok |-> "", acc |-> FALSE]
        ELSE IF ~s.files[pin][f].open
        THEN [st |-> s, err |-> TRUE, hit |-> {}, tok |-> "", acc |-> FALSE]
        ELSE IF "seek" \in faults
        THEN [st |-> s, err |-> TRUE, hit |-> {"seek"}, tok |-> "", acc |-> FALSE]
        ELSE LET tok == Token(value)
                 acc == Writable(s, pin, f) /\ "write" \notin faults
             IN  [st |-> IF acc
                         THEN [s EXCEPT !.level[s.files[pin][f].path[2]] = LevelOf(tok)]
                         ELSE s,
                  err |-> FALSE, hit |-> faults \cap {"write"},
                  tok |-> tok, acc |-> acc]

\* DigitalWrite without the test for a nil open pin
DigitalWriteUnchecked(s, pin, value, faults) ==
    LET w == gpioSetValue(s, pin, value, faults)
    IN  [st |-> w.st, err |-> FALSE, hit |-> w.hit, tok |-> w.tok, acc |-> w.acc]

DigitalWrite(s, pin, value, faults) ==
    IF ~s.gpioOpenPins[pin].open
    THEN [st |-> s, err |-> TRUE, hit |-> {}, tok |-> "", acc |-> FALSE]
    ELSE LET w == gpioSetValue(s, pin, value, faults)
         IN  [st |-> w.st, err |-> FALSE, hit |-> w.hit, tok |-> w.tok, acc |-> w.acc]

\* what ReadAt(b, 0) with len(b) = 1 can return on the value file: rd.n
\* bytes, the byte rd.b, and a non-nil error exactly when rd.n < 1
ReadOutcomes(s, pin, f) ==
    {rd \in [n : {0, 1}, b : Bytes] :
        /\ rd.n = 1 => Readable(s, pin, f)
        /\ rd.n = 0 => rd.b = "x"}

NoRead == [n |-> 0, b |-> "x"]

gpioGetValue(s, pin, rd) ==
    LET value == IF rd.n > 0
                 THEN IF rd.b = "1" THEN High ELSE Low
                 ELSE 0
    IN  [st |-> s, err |-> rd.n < 1, value |-> value, rd |-> rd]

DigitalRead(s, pin, rd) ==
    IF ~s.gpioOpenPins[pin].open
    THEN [st |-> s, err |-> TRUE, value |-> 0, rd |-> NoRead]
    ELSE gpioGetValue(s, pin, rd)

\* the unexports of distinct pins act on distinct numbers, so the order in
\* which the map is ranged over does not show in the result
RECURSIVE UnexportAll(_, _, _)
UnexportAll(s, pins, failing) ==
    IF pins = {}
    THEN Ok(s)
    ELSE LET p == CHOOSE q \in pins : TRUE
             u == gpioUnexport(s, p, IF p \in failing THEN {"unexport"} ELSE {})
             r == UnexportAll(u.st, pins \ {p}, failing)
         IN  Res(r.st, FALSE, (IF u.hit # {} THEN {p} ELSE {}) \cup r.hit)

GPIODisable(s, failing) ==
    UnexportAll(s, {p \in Pins : s.gpioOpenPins[p].open}, failing)

GPIOEnable(s) == Ok(s)

(* -------------------------------------------------- ODroidCXAnalogModule *)

analogOpen(s, pin, fails) ==
    LET o == OpenFile(s, pin, <<"saradc", s.analogOpenPins[pin].analogLogical>>, "r", fails)
    IN  Res([o.st EXCEPT !.analogOpenPins[pin].valueFile = o.file], o.err,
            IF fails THEN {pin} ELSE {})

makeOpenAnalogPin(s, pin, fails) ==
    IF pin \notin definedPins(s.config, "analog")
    THEN Fail(s)
    ELSE analogOpen([s EXCEPT !.analogOpenPins[pin] =
                        [open |-> TRUE,
                         analogLogical |-> analogLogical(s.config, pin),
                         valueFile |-> NilFile]],
                    pin, fails)

\* one turn of the loop of Enable
EnablePin(s, pin, fails) ==
    LET a == AssignPin(s, pin, "analog")
    IN  IF a.err
        THEN a
        ELSE makeOpenAnalogPin(a.st, pin, fails)

\* the loop of Enable over definedPins in the order the map yields them
RECURSIVE EnableLoop(_, _, _)
EnableLoop(s, order, failing) ==
    IF order = << >>
    THEN Ok(s)
    ELSE LET r == EnablePin(s, Head(order), Head(order) \in failing)
         IN  IF r.err
             THEN r
             ELSE EnableLoop(r.st, Tail(order), failing)

AnalogEnable(s, order, failing) ==
    IF ~s.analogInitialised
    THEN EnableLoop([s EXCEPT !.analogInitialised = TRUE], order, failing)
    ELSE Ok(s)

analogClose(s, pin) ==
    FileClose(s, pin, s.analogOpenPins[pin].valueFile)

\* the two loops of Disable; each turn acts on its own pin and file, and
\* no result is looked at
RECURSIVE UnassignAll(_, _)
UnassignAll(s, pins) ==
    IF pins = {}
    THEN s
    ELSE LET p == CHOOSE q \in pins : TRUE
         IN  UnassignAll(UnassignPin(s, p).st, pins \ {p})

RECURSIVE CloseAll(_, _)
CloseAll(s, pins) ==
    IF pins = {}
    THEN s
    ELSE LET p == CHOOSE q \in pins : TRUE
         IN  CloseAll(analogClose(s, p).st, pins \ {p})

\* Disable returning an error when an UnassignPin fails
AnalogDisableChecked(s) ==
    LET s1 == UnassignAll(s, definedPins(s.config, "analog"))
    IN  Res(CloseAll(s1, {p \in Pins : s1.analogOpenPins[p].open}),
            \E p \in definedPins(s.config, "analog") : UnassignPin(s, p).err,
            {})

AnalogDisable(s) ==
    LET s1 == UnassignAll(s, definedPins(s.config, "analog"))
    IN  Ok(CloseAll(s1, {p \in Pins : s1.analogOpenPins[p].open}))

\* strconv.Atoi on a string given as a sequence of characters
Digits == {"0", "1", "2", "3", "4", "5", "6", "7", "8", "9"}

DigitVal(c) ==
    CASE c = "0" -> 0 [] c = "1" -> 1 [] c = "2" -> 2 [] c = "3" -> 3
      [] c = "4" -> 4 [] c = "5" -> 5 [] c = "6" -> 6 [] c = "7" -> 7
      [] c = "8" -> 8 [] OTHER -> 9

RECURSIVE DecVal(_)
DecVal(str) ==
    IF str = << >>
    THEN 0
    ELSE 10 * DecVal(SubSeq(str, 1, Len(str) - 1)) + DigitVal(str[Len(str)])

Atoi(str) ==
    LET body == IF str # << >> /\ str[1] \in {"+", "-"} THEN Tail(str) ELSE str
    IN  IF body = << >> \/ \E i \in 1 .. Len(body) : body[i] \notin Digits
        THEN [value |-> 0, err |-> TRUE]
        ELSE [value |-> IF str[1] = "-" THEN 0 - DecVal(body) ELSE DecVal(body),
              err |-> FALSE]

\* size of the buffer analogGetValue reads into
BufLen == 5

\* the number of bytes ReadAt(b, 0) returns on the value file of the pin
\* when the device holds text: the first BufLen characters of it
ReadCount(s, pin, text) ==
    IF Readable(s, pin, s.analogOpenPins[pin].valueFile)
    THEN IF Len(text) < BufLen THEN Len(text) ELSE BufLen
    ELSE 0

\* analogGetValue returning on every error of ReadAt
analogGetValueStrict(s, pin, text) ==
    LET n == ReadCount(s, pin, text)
        e == n < BufLen
    IN  IF e
        THEN [st |-> s, err |-> TRUE, kind |-> "io", value |-> 0, n |-> n]
        ELSE LET a == Atoi(SubSeq(text, 1, n - 1))
             IN  [st |-> s, err |-> a.err, kind |-> IF a.err THEN "parse" ELSE "",
                  value |-> a.value, n |-> n]

\* analogGetValue handing all n bytes to Atoi
analogGetValueWhole(s, pin, text) ==
    LET n == ReadCount(s, pin, text)
        e == n < BufLen
    IN  IF e /\ n = 0
        THEN [st |-> s, err |-> TRUE, kind |-> "io", value |-> 0, n |-> n]
        ELSE LET a == Atoi(SubSeq(text, 1, n))
             IN  [st |-> s, err |-> a.err, kind |-> IF a.err THEN "parse" ELSE "",
                  value |-> a.value, n |-> n]

\* text is what the device file holds; ReadAt returns a non-nil error e
\* when it returns fewer than BufLen bytes.  kind names the error returned:
\* "io" the error of ReadAt, "parse" the error of strconv.Atoi.
analogGetValue(s, pin, text) ==
    LET n == ReadCount(s, pin, text)
        e == n < BufLen
    IN  IF e /\ n = 0
        THEN [st |-> s, err |-> TRUE, kind |-> "io", value |-> 0, n |-> n]
        ELSE LET a == Atoi(SubSeq(text, 1, n - 1))
             IN  [st |-> s, err |-> a.err, kind |-> IF a.err THEN "parse" ELSE "",
                  value |-> a.value, n |-> n]

AnalogRead(s, pin, text) ==
    IF ~s.analogOpenPins[pin].open
    THEN [st |-> s, err |-> TRUE, kind |-> "notopen", value |-> 0, n |-> 0]
    ELSE analogGetValue(s, pin, text)

(* ----------------------------------------------------------- DTI2CModule *)

RECURSIVE AssignAll(_, _, _)
AssignAll(s, pins, module) ==
    IF pins = {}
    THEN Ok(s)
    ELSE LET p == CHOOSE q \in pins : TRUE
             a == AssignPin(s, p, module)
             r == AssignAll(a.st, pins \ {p}, module)
         IN  Res(r.st, a.err \/ r.err, {})

I2CEnable(s, module) == AssignAll(s, definedPins(s.config, module), module)

I2CDisable(s, module) ==
    Ok(UnassignAll(s, {p \in definedPins(s.config, module) :
                          s.assignedPins[p] = module}))

(* -------------------------------------------------------- OdroidCXDriver *)

\* the keys of d.modules; "i2c" is a second key for the i2ca module (the
\* pins of i2cb are not among the rows of the table kept here)
ModuleKeys == {"gpio", "analog", "i2ca", "i2c"}

\* the orders in which ranging over a map with key set S can yield the keys
Orders(S) ==
    {f \in [1 .. Cardinality(S) -> S] : \A x \in S : \E i \in DOMAIN f : f[i] = x}

KeyOrders == Orders(ModuleKeys)

\* Disable of the module stored under a key of d.modules
ModuleDisable(s, key) ==
    CASE key = "gpio" -> GPIODisable(s, {})
      [] key = "analog" -> AnalogDisable(s)
      [] OTHER -> I2CDisable(s, "i2ca")

\* the Enable calls that end initialiseModules; their results are dropped
\* and nil is returned
initialiseModules(s, order, failing) ==
    LET s1 == I2CEnable(s, "i2ca").st
        e == AnalogEnable(s1, order, failing)
    IN  Res(e.st, FALSE, e.hit)

RECURSIVE DriverClose(_, _)
DriverClose(s, order) ==
    IF order = << >>
    THEN s
    ELSE DriverClose(ModuleDisable(s, Head(order)).st, Tail(order))

(* ------------------------------------------------------------ goroutines *)

\* Two goroutines, each in one call of the gpio module.  A goroutine is the
\* call it runs (op, pin, mode, value), the statement it is at (pc), where
\* ClosePin returns to (back: to the caller, or into PinMode, which drops
\* the result), its local openPin (ptr, obj) and the error it returned.
\* openPin is a pointer: "nil", "map" when the object it points to is
\* openPins[pin], "own" when that object is no longer in the map, and obj
\* is then the object.
Threads == {1, 2}

NoThread ==
    [op |-> "", pin |-> 0, mode |-> Input, value |-> 0, pc |-> "idle",
     back |-> "", ptr |-> "nil", obj |-> NoOpenPin, err |-> FALSE]

\* the first statement of each call
Entry(op) ==
    CASE op = "PinMode" -> "pm_lookup"
      [] op = "ClosePin" -> "cp_lookup"
      [] OTHER -> "dw_lookup"

\* the program state with the object openPin points to at openPins[pin]
Deref(s, t) ==
    IF t.ptr = "own" THEN [s EXCEPT !.gpioOpenPins[t.pin] = t.obj] ELSE s

\* s2 is what a method of openPin made of Deref(s, t): the map keeps the
\* object it holds, and an object outside the map stays with the goroutine
Through(s, t, s2) ==
    IF t.ptr = "own"
    THEN [st |-> [s2 EXCEPT !.gpioOpenPins[t.pin] = s.gpioOpenPins[t.pin]],
          t |-> [t EXCEPT !.obj = s2.gpioOpenPins[t.pin]]]
    ELSE [st |-> s2, t |-> t]

\* return of the call with the error e
Finish(t, e) ==
    [t EXCEPT !.pc = "done", !.err = e, !.ptr = "nil", !.obj = NoOpenPin]

\* return of ClosePin: to the caller, or to the assign of PinMode
CloseReturn(t, e) ==
    IF t.back = "pm_assign"
    THEN [t EXCEPT !.pc = "pm_assign", !.ptr = "nil", !.obj = NoOpenPin]
    ELSE Finish(t, e)

At(t, pc) == [t EXCEPT !.pc = pc]

\* One statement of goroutine t in state s: the state and the goroutine
\* after it, and whether it wrote to the map openPins.
Statement(s, t) ==
    LET pin == t.pin
        d == Deref(s, t)
        same(u) == [st |-> s, t |-> u, wrote |-> FALSE]
        thru(s2, pc) ==
            LET r == Through(s, t, s2)
            IN  [st |-> r.st, t |-> At(r.t, pc), wrote |-> FALSE]
        fail(s2) ==
            LET r == Through(s, t, s2)
            IN  [st |-> r.st, t |-> Finish(r.t, TRUE), wrote |-> FALSE]
    IN  CASE t.pc = "pm_lookup" ->
               IF pin \notin definedPins(s.config, "gpio")
               THEN same(Finish(t, TRUE))
               ELSE IF s.gpioOpenPins[pin].open /\ t.mode # s.gpioOpenPins[pin].mode
               THEN same([t EXCEPT !.pc = "cp_lookup", !.back = "pm_assign"])
               ELSE same(At(t, "pm_assign"))
          [] t.pc = "pm_assign" ->
               LET a == AssignPin(s, pin, "gpio")
               IN  IF a.err
                   THEN same(Finish(t, TRUE))
                   ELSE [st |-> a.st, t |-> At(t, "pm_make"), wrote |-> FALSE]
          [] t.pc = "pm_make" ->
               LET m == makeOpenGPIOPin(s, pin)
               IN  [st |-> m.st,
                    t |-> [t EXCEPT !.pc = "pm_export", !.ptr = "map", !.obj = NoOpenPin],
                    wrote |-> TRUE]
          [] t.pc = "pm_export" ->
               LET x == gpioExport(d, pin, {})
               IN  IF x.err THEN fail(x.st) ELSE thru(x.st, "pm_direction")
          [] t.pc = "pm_direction" ->
               LET g == gpioDirection(d, pin, IF t.mode = Output THEN "out" ELSE "in", {})
               IN  IF g.err THEN fail(g.st) ELSE thru(g.st, "pm_mode")
          [] t.pc = "pm_mode" ->
               LET r == Through(s, t, [d EXCEPT !.gpioOpenPins[pin].mode = t.mode])
               IN  [st |-> r.st, t |-> Finish(r.t, FALSE), wrote |-> FALSE]
          [] t.pc = "cp_lookup" ->
               IF ~s.gpioOpenPins[pin].open
               THEN same(CloseReturn(t, TRUE))
               ELSE same([t EXCEPT !.pc = "cp_unexport", !.ptr = "map"])
          [] t.pc = "cp_unexport" ->
               LET u == gpioUnexport(d, pin, {})
               IN  IF u.err
                   THEN same(CloseReturn(t, TRUE))
                   ELSE thru(u.st, "cp_close")
          [] t.pc = "cp_close" ->
               LET c == FileClose(d, pin, d.gpioOpenPins[pin].valueFile)
               IN  IF c.err
                   THEN same(CloseReturn(t, TRUE))
                   ELSE thru(c.st, "cp_delete")
          [] t.pc = "cp_delete" ->
               [st |-> [s EXCEPT !.gpioOpenPins[pin] = NoOpenPin],
                t |-> [t EXCEPT !.pc = "cp_unassign", !.ptr = "nil", !.obj = NoOpenPin],
                wrote |-> TRUE]
          [] t.pc = "cp_unassign" ->
               LET u == UnassignPin(s, pin)
               IN  [st |-> u.st, t |-> CloseReturn(t, u.err), wrote |-> FALSE]
          [] t.pc = "dw_lookup" ->
               IF ~s.gpioOpenPins[pin].open
               THEN same(Finish(t, TRUE))
               ELSE same([t EXCEPT !.pc = "dw_set", !.ptr = "map"])
          [] OTHER ->
               LET w == gpioSetValue(d, pin, t.value, {})
                   r == Through(s, t, w.st)
               IN  [st |-> r.st, t |-> Finish(r.t, FALSE), wrote |-> FALSE]

\* A write to openPins[pin] by one goroutine takes the object the other
\* goroutine points to out of the map
Detach(s, u, pin, wrote) ==
    IF wrote /\ u.ptr = "map" /\ u.pin = pin
    THEN [u EXCEPT !.ptr = "own", !.obj = s.gpioOpenPins[pin]]
    ELSE u

\* the statements that write to the map openPins, and those that read it
MapWrites == {"pm_make", "cp_delete"}
MapReads == {"pm_lookup", "cp_lookup", "dw_lookup"}

\* a call from entry to return, as a caller on one goroutine runs it
RunCall(s, c) ==
    CASE c.op = "PinMode" -> PinMode(s, c.pin, c.mode, {})
      [] c.op = "ClosePin" -> ClosePin(s, c.pin, {})
      [] OTHER -> DigitalWrite(s, c.pin, c.value, {})

\* What a caller can tell of a state: the registry, the device, the
\* entries of openPins with the file each holds, and for each pin how many
\* further files of each kind exist
View(s) ==
    [assignedPins |-> s.assignedPins, exported |-> s.exported, level |-> s.level,
     openPins |-> [p \in Pins |->
        LET o == s.gpioOpenPins[p]
        IN  [open |-> o.open, mode |-> o.mode, gpioBaseName |-> o.gpioBaseName,
             file |-> IF o.valueFile = NilFile THEN << >>
                      ELSE <<s.files[p][o.valueFile]>>]],
     others |-> [p \in Pins |->
        LET idx == (1 .. Len(s.files[p])) \ {s.gpioOpenPins[p].valueFile}
        IN  {<<s.files[p][i], Cardinality({j \in idx : s.files[p][j] = s.files[p][i]})>> :
                i \in idx}]]

\* the outcome of running call a and then call b from state s
InOrder(s, a, b) ==
    LET r1 == RunCall(s, a)
        r2 == RunCall(r1.st, b)
    IN  [view |-> View(r2.st), erra |-> r1.err, errb |-> r2.err]

(* ---------------------------------------------------------------- inputs *)

AtMost(S) == {F \in SUBSET S : Cardinality(F) <= MaxFaults}

PinModeFaults == AtMost({"unexport", "export", "direction", "open"})
ClosePinFaults == AtMost({"unexport"})
WriteFaults == AtMost({"seek", "write"})
Values == 0 .. MaxValue

\* device texts handed to AnalogRead
Texts ==
    { <<"1", "\n">>, <<"4", "2", "\n">>, <<"1", "0", "0", "0", "\n">>,
      <<"7">>, <<"1", "2", "3", "4", "5">>,
      <<"x", "\n">>, <<"\n">>, << >> }

GpioOpen(s) == {p \in Pins : s.gpioOpenPins[p].open}

\* the calls two goroutines make at the same time, on one pin
GoCalls ==
    <<[op |-> "PinMode", mode |-> Input, value |-> 0],
      [op |-> "PinMode", mode |-> Output, value |-> 0],
      [op |-> "ClosePin", mode |-> Input, value |-> 0]>>
    \o [v \in 1 .. MaxValue + 1 |-> [op |-> "DigitalWrite", mode |-> Input, value |-> v - 1]]

\* a goroutine at the entry of call c on the pin
Go(c, pin) ==
    [NoThread EXCEPT !.op = c.op, !.pin = pin, !.mode = c.mode, !.value = c.value,
                     !.pc = Entry(c.op)]

\* the value files the PinMode calls among a and b open
Opens(a, b) ==
    (IF a.op = "PinMode" THEN 1 ELSE 0) + (IF b.op = "PinMode" THEN 1 ELSE 0)
AnalogOpen(s) == {p \in Pins : s.analogOpenPins[p].open}

(* --------------------------------------------------------------- actions *)

\* the record of a call: the operation, the module, the arguments, the
\* operating-system calls that failed in it (faults by name, failing by
\* pin) and what it returned
NoRet ==
    [op |-> "", key |-> "", pin |-> 0, mode |-> Input, value |-> 0,
     faults |-> {}, failing |-> {}, err |-> FALSE, val |-> 0, tok |-> "",
     acc |-> FALSE, n |-> 0, b |-> "x", text |-> << >>, kind |-> ""]

\* the record of a call, kept when the specification observes the call
Observe(obs, r) == IF r.op \in obs THEN r ELSE NoRet

\* no goroutines: every call is made by one caller, one after the other
NoStart == [config |-> ""]
NoConc ==
    [active |-> FALSE, crashed |-> FALSE, start |-> NoStart,
     t |-> [i \in Threads |-> NoThread]]

\* a call made by the one caller, while no goroutines run
Sequential == ~conc.active /\ conc' = conc

Init ==
    /\ config \in Configs
    /\ phase = IF config \in Boards THEN "new" ELSE "modules"
    /\ assignedPins = [p \in Pins |-> NoModule]
    /\ gpioOpenPins = [p \in Pins |-> NoOpenPin]
    /\ analogInitialised = FALSE
    /\ analogOpenPins = [p \in Pins |-> NoAnalogPin]
    /\ files = [p \in Pins |-> << >>]
    /\ exported = {}
    /\ level = [n \in GpioNumbers |-> Low]
    /\ ret = NoRet
    /\ conc = NoConc

\* In every action the operating-system calls made to fail are calls the
\* handler makes (r.hit is all of them): a failure kept for a call that is
\* not made is the same run of the handler as without it.  Likewise the
\* text of an AnalogRead is the text the read returns (r.n is its length).

\* A call on a module: on the modules of the driver once Init has built
\* them, or on modules built and configured without a driver.
Called == phase # "new" /\ phase' = phase /\ Sequential

AnalogCanOpen == \A p \in definedPins(config, "analog") : Len(files[p]) < MaxFiles

DriverInit(obs) ==
    /\ phase = "new"
    /\ AnalogCanOpen
    /\ \E order \in Orders(definedPins(config, "analog")),
          failing \in AtMost(definedPins(config, "analog")) :
          LET r == initialiseModules(Cur, order, failing)
          IN  /\ r.hit = failing
              /\ Becomes(r.st)
              /\ phase' = "driver"
              /\ Sequential
              /\ ret' = Observe(obs, [NoRet EXCEPT !.op = "Init", !.failing = r.hit,
                                                   !.err = r.err])

Close(obs) ==
    /\ phase = "driver"
    /\ \E order \in KeyOrders :
          /\ Becomes(DriverClose(Cur, order))
          /\ phase' = phase
          /\ Sequential
          /\ ret' = Observe(obs, [NoRet EXCEPT !.op = "Close"])

DoPinMode(obs) ==
    \E pin \in Pins, mode \in Modes, faults \in PinModeFaults :
        LET r == PinMode(Cur, pin, mode, faults)
        IN  /\ Len(files[pin]) < MaxFiles
            /\ r.hit = faults
            /\ Becomes(r.st)
            /\ Called
            /\ ret' = Observe(obs, [NoRet EXCEPT !.op = "PinMode", !.key = "gpio",
                                                 !.pin = pin, !.mode = mode,
                                                 !.faults = r.hit, !.err = r.err])

DoClosePin(obs) ==
    \E pin \in Pins, faults \in ClosePinFaults :
        LET r == ClosePin(Cur, pin, faults)
        IN  /\ r.hit = faults
            /\ Becomes(r.st)
            /\ Called
            /\ ret' = Observe(obs, [NoRet EXCEPT !.op = "ClosePin", !.key = "gpio",
                                                 !.pin = pin, !.faults = r.hit,
                                                 !.err = r.err])

DoDigitalWrite(obs) ==
    \E pin \in Pins, value \in Values, faults \in WriteFaults :
        LET r == DigitalWrite(Cur, pin, value, faults)
        IN  /\ r.hit = faults
            /\ Becomes(r.st)
            /\ Called
            /\ ret' = Observe(obs, [NoRet EXCEPT !.op = "DigitalWrite", !.key = "gpio",
                                                 !.pin = pin, !.value = value,
                                                 !.faults = r.hit, !.err = r.err,
                                                 !.tok = r.tok, !.acc = r.acc])

DoDigitalRead(obs) ==
    \E pin \in Pins :
        \E rd \in ReadOutcomes(Cur, pin, gpioOpenPins[pin].valueFile) :
            LET r == DigitalRead(Cur, pin, rd)
            IN  /\ Becomes(r.st)
                /\ Called
                /\ ret' = Observe(obs, [NoRet EXCEPT !.op = "DigitalRead", !.key = "gpio",
                                                     !.pin = pin, !.err = r.err,
                                                     !.val = r.value, !.n = r.rd.n,
                                                     !.b = r.rd.b])

DoAnalogRead(obs) ==
    \E pin \in Pins, text \in Texts :
        LET r == AnalogRead(Cur, pin, text)
        IN  /\ r.n = Len(text)
            /\ Becomes(r.st)
            /\ Called
            /\ ret' = Observe(obs, [NoRet EXCEPT !.op = "AnalogRead", !.key = "analog",
                                                 !.pin = pin, !.err = r.err,
                                                 !.val = r.value, !.text = text,
                                                 !.n = r.n, !.kind = r.kind])

DoGPIOEnable(obs) ==
    LET r == GPIOEnable(Cur)
    IN  /\ Becomes(r.st)
        /\ Called
        /\ ret' = Observe(obs, [NoRet EXCEPT !.op = "Enable", !.key = "gpio",
                                             !.err = r.err])

DoGPIODisable(obs) ==
    \E failing \in AtMost(GpioOpen(Cur)) :
        LET r == GPIODisable(Cur, failing)
        IN  /\ r.hit = failing
            /\ Becomes(r.st)
            /\ Called
            /\ ret' = Observe(obs, [NoRet EXCEPT !.op = "Disable", !.key = "gpio",
                                                 !.failing = r.hit, !.err = r.err])

DoAnalogEnable(obs) ==
    /\ AnalogCanOpen
    /\ \E order \in Orders(definedPins(config, "analog")),
          failing \in AtMost(definedPins(config, "analog")) :
          LET r == AnalogEnable(Cur, order, failing)
          IN  /\ r.hit = failing
              /\ Becomes(r.st)
              /\ Called
              /\ ret' = Observe(obs, [NoRet EXCEPT !.op = "Enable", !.key = "analog",
                                                   !.failing = r.hit, !.err = r.err])

DoAnalogDisable(obs) ==
    LET r == AnalogDisable(Cur)
    IN  /\ Becomes(r.st)
        /\ Called
        /\ ret' = Observe(obs, [NoRet EXCEPT !.op = "Disable", !.key = "analog",
                                             !.err = r.err])

\* two goroutines start two calls on one pin
Fork ==
    /\ ~conc.active
    /\ phase # "new"
    /\ \E pin \in Pins, a \in DOMAIN GoCalls, b \in DOMAIN GoCalls :
          /\ a <= b
          /\ Len(files[pin]) + Opens(GoCalls[a], GoCalls[b]) <= MaxFiles
          /\ conc' = [active |-> TRUE, crashed |-> FALSE, start |-> Cur,
                      t |-> [i \in Threads |->
                                Go(GoCalls[IF i = 1 THEN a ELSE b], pin)]]
    /\ UNCHANGED <<config, phase, assignedPins, gpioOpenPins, analogInitialised,
                   analogOpenPins, files, exported, level, ret>>

\* one goroutine runs its next statement
GoStep ==
    /\ conc.active
    /\ ~conc.crashed
    /\ \E i \in Threads :
          /\ conc.t[i].pc \notin {"idle", "done"}
          /\ LET r == Statement(Cur, conc.t[i])
             IN  /\ Becomes(r.st)
                 /\ conc' = [conc EXCEPT !.t =
                                [j \in Threads |->
                                    IF j = i THEN r.t
                                    ELSE Detach(Cur, conc.t[j], r.t.pin, r.wrote)]]
    /\ UNCHANGED <<phase, ret>>

\* A write to the map openPins by one goroutine at the time of a read or
\* a write of it by the other: the runtime can stop the program with a
\* fatal error, or let both go through one after the other (GoStep).
MapRace ==
    /\ conc.active
    /\ ~conc.crashed
    /\ \E i \in Threads, j \in Threads :
          /\ i # j
          /\ conc.t[i].pc \in MapWrites
          /\ conc.t[j].pc \in MapWrites \cup MapReads
          /\ conc.t[j].pin \in definedPins(config, "gpio")
    /\ conc' = [conc EXCEPT !.crashed = TRUE]
    /\ UNCHANGED <<config, phase, assignedPins, gpioOpenPins, analogInitialised,
                   analogOpenPins, files, exported, level, ret>>

\* the calls that change the state of the program or of the device
Change(obs) ==
    \/ DriverInit(obs)
    \/ Close(obs)
    \/ DoPinMode(obs)
    \/ DoClosePin(obs)
    \/ DoDigitalWrite(obs)
    \/ DoGPIOEnable(obs)
    \/ DoGPIODisable(obs)
    \/ DoAnalogEnable(obs)
    \/ DoAnalogDisable(obs)

\* the calls that claim, release or open pins, and the calls that move data
LifeOps == {"Init", "Close", "PinMode", "ClosePin", "Enable", "Disable"}
DataOps == {"DigitalWrite", "DigitalRead"}
AnalogOps == {"AnalogRead"}
ErrOps == {"Init", "PinMode", "DigitalWrite"}

\* Every specification takes every call that changes the state; the reads
\* change nothing, and a specification takes them when it observes them.
Next == Change(LifeOps)

NextData == Change(DataOps) \/ DoDigitalRead(DataOps)

Spec == Init /\ [][Next]_vars

SpecData == Init /\ [][NextData]_vars

NextAnalog == Change(AnalogOps) \/ DoAnalogRead(AnalogOps)

SpecAnalog == Init /\ [][NextAnalog]_vars

NextErr == Change(ErrOps)

SpecErr == Init /\ [][NextErr]_vars

\* calls of PinMode and ClosePin by one caller, then two goroutines
NoOps == {}

NextGo ==
    \/ DriverInit(NoOps)
    \/ DoPinMode(NoOps)
    \/ DoClosePin(NoOps)
    \/ Fork
    \/ GoStep
    \/ MapRace

SpecGo == Init /\ [][NextGo]_vars

\* the calls of the gpio module alone that claim and release pins, on the
\* modules as configured or as the driver of a board built them
NextGPIO ==
    \/ DriverInit(LifeOps)
    \/ DoPinMode(LifeOps)
    \/ DoClosePin(LifeOps)
    \/ DoGPIODisable(LifeOps)

SpecGPIO == Init /\ [][NextGPIO]_vars

TypeOK ==
    /\ config \in Configs
    /\ phase \in {"new", "modules", "driver"}
    /\ assignedPins \in [Pins -> ModuleNames \cup {NoModule}]
    /\ exported \subseteq GpioNumbers
    /\ \A p \in Pins : Len(files[p]) <= MaxFiles

(* ---------------------------------------------------------------- claims *)

\* the pin of the call just made and what the gpio module held for it
\* before the call
IsCall(op) == ret'.op = op
OldPin == gpioOpenPins[ret'.pin]
Owner(p) == assignedPins[p]
ProgramUnchanged ==
    UNCHANGED <<assignedPins, gpioOpenPins, analogInitialised, analogOpenPins,
                files, exported, level>>

\* C1: the registry holds one owner for a pin; in every state an assign of
\* a pin by a module other than its owner fails and changes nothing, and an
\* assign by its owner succeeds and changes nothing.  In the callers: a
\* PinMode that goes to its assign on a pin another module owns (no close
\* of an entry in the other mode before it), and an Enable that finds a pin
\* of another module, return an error and leave that owner; PinMode on a
\* pin the gpio module owns succeeds, when no operating-system call fails,
\* and leaves the registry as it is.
C1_Assign(p, m) ==
    LET a == AssignPin(Cur, p, m)
    IN  /\ Owner(p) \notin {NoModule, m} => (a.err /\ a.st = Cur)
        /\ Owner(p) = m => (~a.err /\ a.st = Cur)

C1_Step ==
    /\ assignedPins' \in [Pins -> ModuleNames \cup {NoModule}]
    /\ \A p \in Pins : \A m \in ModuleNames : C1_Assign(p, m)
    /\ (IsCall("PinMode") /\ Owner(ret'.pin) \notin {NoModule, "gpio"}
          /\ ~(OldPin.open /\ OldPin.mode # ret'.mode))
          => (ret'.err /\ assignedPins' = assignedPins)
    /\ (IsCall("Enable") /\ ret'.key = "analog" /\ ~analogInitialised
          /\ \E p \in definedPins(config, "analog") : Owner(p) \notin {NoModule, "analog"})
          => (ret'.err /\ \A p \in Pins : Owner(p) \notin {NoModule, "analog"}
                                              => assignedPins'[p] = Owner(p))
    /\ (IsCall("PinMode") /\ Owner(ret'.pin) = "gpio" /\ ret'.faults = {})
          => (~ret'.err /\ assignedPins' = assignedPins)

C1_RegistryExclusive == [][C1_Step]_vars

\* PinMode was refused on a pin another module owns
C1_Witness ==
    /\ ret.op = "PinMode"
    /\ ret.err
    /\ ret.pin \in definedPins(config, "gpio")
    /\ ~gpioOpenPins[ret.pin].open
    /\ assignedPins[ret.pin] \notin {NoModule, "gpio"}

\* C2: a pin with an entry in the openPins of a module is owned by that
\* module in the registry.
C2_OpenPinsOwned ==
    \A p \in Pins :
        /\ gpioOpenPins[p].open => assignedPins[p] = "gpio"
        /\ analogOpenPins[p].open => assignedPins[p] = "analog"

\* C3: after Disable of a module the registry has no owner for any pin the
\* module owned before the call.
C3_DisableReleases ==
    [][IsCall("Disable")
         => \A p \in Pins : Owner(p) = ret'.key => assignedPins'[p] = NoModule]_vars

\* C4: after Close of the driver of a board no pin has an owner.
C4_CloseEmptiesRegistry ==
    (ret.op = "Close" /\ config \in Boards)
        => \A p \in Pins : assignedPins[p] = NoModule

\* C5: when PinMode succeeds on a pin held with a value file in the other
\* mode, that value file is closed, the pin holds a file opened in this
\* call and its mode is the mode asked for.
C5_ModeSwitchReopens ==
    [][(IsCall("PinMode") /\ ~ret'.err /\ OldPin.open
          /\ OldPin.valueFile # NilFile /\ OldPin.mode # ret'.mode)
         => LET pin == ret'.pin
                new == gpioOpenPins'[pin].valueFile
            IN  /\ ~files'[pin][OldPin.valueFile].open
                /\ new > Len(files[pin])
                /\ files'[pin][new].open
                /\ gpioOpenPins'[pin].mode = ret'.mode]_vars

\* C6: a ClosePin that succeeds leaves the pin unexported, its value file
\* closed, no entry in openPins and no owner; ClosePin on a pin without an
\* entry returns an error and changes nothing.
C6_ClosePin ==
    [][IsCall("ClosePin")
         => LET pin == ret'.pin
            IN  /\ (OldPin.open /\ ~ret'.err)
                      => /\ OldPin.gpioLogical \notin exported'
                         /\ ~files'[pin][OldPin.valueFile].open
                         /\ ~gpioOpenPins'[pin].open
                         /\ assignedPins'[pin] = NoModule
                /\ ~OldPin.open => (ret'.err /\ ProgramUnchanged)]_vars

\* ClosePin succeeded on a pin whose value file had been opened
C6_Witness ==
    /\ ret.op = "ClosePin"
    /\ ~ret.err
    /\ files[ret.pin] # << >>
    /\ ~gpioOpenPins[ret.pin].open

\* C7: DigitalWrite and DigitalRead on a pin without an entry in openPins
\* (every pin PinMode was never called for is one) return an error and
\* change nothing.
C7_NotOpened ==
    [][((IsCall("DigitalWrite") \/ IsCall("DigitalRead")) /\ ~OldPin.open)
         => (ret'.err /\ ProgramUnchanged)]_vars

\* a write was refused on a pin of the gpio module no file was ever opened
\* for
C7_Witness ==
    /\ ret.op = "DigitalWrite"
    /\ ret.err
    /\ ret.pin \in definedPins(config, "gpio")
    /\ files[ret.pin] = << >>

\* C8: DigitalWrite returns no error only on a pin held in Output mode with
\* a value file, and on a pin held in Input mode it writes nothing.
C8_WriteNeedsOutput ==
    [][IsCall("DigitalWrite")
         => /\ ~ret'.err => (OldPin.open /\ OldPin.mode = Output
                               /\ OldPin.valueFile # NilFile)
            /\ (OldPin.open /\ OldPin.mode = Input) => ~ret'.acc]_vars

\* C9: on a pin held in Output mode and exported, a DigitalWrite in which
\* no operating-system call fails writes "0" for 0 and "1" for every other
\* value, and the device then holds the level written.
C9_WriteToken ==
    [][(IsCall("DigitalWrite") /\ OldPin.open /\ OldPin.mode = Output
          /\ OldPin.gpioLogical \in exported /\ ret'.faults = {})
         => /\ ret'.tok = (IF ret'.value = 0 THEN "0" ELSE "1")
            /\ ret'.acc
            /\ level'[OldPin.gpioLogical] = (IF ret'.value = 0 THEN Low ELSE High)]_vars

\* a value other than 0 and 1 was written and the device holds High
C9_Witness ==
    /\ ret.op = "DigitalWrite"
    /\ ret.value > 1
    /\ ret.acc
    /\ \E p \in Pins : gpioOpenPins[p].open /\ level[gpioOpenPins[p].gpioLogical] = High

\* C10: DigitalRead on a pin with an entry returns High exactly when one
\* byte was read and it is "1", and Low without an error when no byte was
\* read.
C10_ReadValue ==
    [][(IsCall("DigitalRead") /\ OldPin.open)
         => /\ (ret'.val = High) <=> (ret'.n = 1 /\ ret'.b = "1")
            /\ ret'.n = 0 => (ret'.val = Low /\ ~ret'.err)]_vars

\* C11: when Enable of the analog module returns no error, every pin of its
\* definedPins is owned by the analog module and has an entry in openPins
\* with an open read-only value file.
C11_EnableClaimsAll ==
    (ret.op = "Enable" /\ ret.key = "analog" /\ ~ret.err)
        => \A p \in definedPins(config, "analog") :
              /\ assignedPins[p] = "analog"
              /\ analogOpenPins[p].open
              /\ analogOpenPins[p].valueFile # NilFile
              /\ files[p][analogOpenPins[p].valueFile].open
              /\ files[p][analogOpenPins[p].valueFile].flag = "r"

\* the analog module's entry for the pin of the call just made, before it
OldAnalog == analogOpenPins[ret'.pin]

\* the pin of the call has an entry whose value file can be read
AnalogPinOpen == OldAnalog.open /\ Readable(Cur, ret'.pin, OldAnalog.valueFile)

\* one to four decimal digits followed by a newline
DigitsThenNewline(t) ==
    /\ Len(t) \in 2 .. BufLen
    /\ t[Len(t)] = "\n"
    /\ \A i \in 1 .. Len(t) - 1 : t[i] \in Digits

\* the longest prefix of t made of decimal digits
LeadingDigits(t) ==
    LET k == CHOOSE i \in 0 .. Len(t) :
                 /\ \A j \in 1 .. i : t[j] \in Digits
                 /\ i = Len(t) \/ t[i + 1] \notin Digits
    IN  SubSeq(t, 1, k)

\* C12: AnalogRead on a pin with an open value file whose device text is
\* one to four decimal digits and a newline returns the integer the digits
\* denote and no error.
C12_ReadDigits ==
    [][(IsCall("AnalogRead") /\ AnalogPinOpen /\ DigitsThenNewline(ret'.text))
         => /\ ~ret'.err
            /\ ret'.val = DecVal(SubSeq(ret'.text, 1, Len(ret'.text) - 1))]_vars

\* the text "1000\n" was read as 1000
C12_Witness ==
    /\ ret.op = "AnalogRead"
    /\ ret.text = <<"1", "0", "0", "0", "\n">>
    /\ ret.val = 1000
    /\ ~ret.err

\* C13: AnalogRead on a pin with an open value file whose device text
\* begins with a decimal digit returns the integer its leading digits
\* denote and no error, with or without a terminator after them.
C13_LeadingDigits ==
    [][(IsCall("AnalogRead") /\ AnalogPinOpen /\ ret'.text # << >>
          /\ ret'.text[1] \in Digits)
         => /\ ~ret'.err
            /\ ret'.val = DecVal(LeadingDigits(ret'.text))]_vars

\* C14: AnalogRead on a pin with an entry returns the error of Atoi when
\* the bytes read hold no decimal digit, returns the error of the read and
\* the value 0 when the read returned no byte, and does not return the
\* error of a read that returned bytes: digits and a newline short of the
\* buffer are read without an error.
C14_ReadErrors ==
    [][(IsCall("AnalogRead") /\ OldAnalog.open)
         => /\ (ret'.n > 0 /\ \A i \in 1 .. ret'.n : ret'.text[i] \notin Digits)
                  => (ret'.err /\ ret'.kind = "parse")
            /\ ret'.n = 0 => (ret'.err /\ ret'.kind = "io" /\ ret'.val = 0)
            /\ (ret'.n > 0 /\ ret'.n < BufLen)
                  => /\ ret'.kind # "io"
                     /\ DigitsThenNewline(ret'.text) => ~ret'.err]_vars

\* a read that returned no byte on a pin with an entry ended in the error
\* of the read
C14_Witness ==
    /\ ret.op = "AnalogRead"
    /\ analogOpenPins[ret.pin].open
    /\ ret.n = 0
    /\ ret.kind = "io"

\* the modules a driver of the board hands pins to
DriverModules == {"gpio", "analog", "i2ca", "i2cb"}

\* the pins of the table whose entry carries the tag unassignable
Unassignable == {p \in Pins : usedBy(config, p, "unassignable")}

\* C15: on both board revisions a pin tagged unassignable is in the
\* definedPins of no module and never has an owner, and PinMode on it
\* returns an error and changes nothing.
C15_Step ==
    config \in Boards
        => \A p \in Unassignable :
              /\ \A m \in DriverModules : p \notin definedPins(config, m)
              /\ assignedPins[p] = NoModule
              /\ assignedPins'[p] = NoModule
              /\ (IsCall("PinMode") /\ ret'.pin = p) => (ret'.err /\ ProgramUnchanged)

C15_Unassignable == [][C15_Step]_vars

\* PinMode was refused on an unassignable pin of a board
C15_Witness ==
    /\ config \in Boards
    /\ ret.op = "PinMode"
    /\ ret.pin \in Unassignable
    /\ ret.err

\* the program state after the step
After ==
    [config |-> config', assignedPins |-> assignedPins',
     gpioOpenPins |-> gpioOpenPins', analogInitialised |-> analogInitialised',
     analogOpenPins |-> analogOpenPins', files |-> files',
     exported |-> exported', level |-> level']

\* C16: while a module owns a pin, an assign of the pin by another module
\* fails and changes nothing; in the state a successful ClosePin leaves, an
\* assign of the pin by any module succeeds and makes that module the
\* owner; and the first Enable of the analog module on pins that are all
\* free or its own, with no open failing, succeeds and owns them.
C16_Step ==
    /\ \A p \in Pins : \A m2 \in ModuleNames :
          Owner(p) \notin {NoModule, m2}
              => (AssignPin(Cur, p, m2).err /\ AssignPin(Cur, p, m2).st = Cur)
    /\ (IsCall("ClosePin") /\ ~ret'.err)
          => \A m2 \in ModuleNames :
                LET a == AssignPin(After, ret'.pin, m2)
                IN  ~a.err /\ a.st.assignedPins[ret'.pin] = m2
    /\ (IsCall("Enable") /\ ret'.key = "analog" /\ ~analogInitialised
          /\ ret'.failing = {}
          /\ \A p \in definedPins(config, "analog") : Owner(p) \in {NoModule, "analog"})
          => (~ret'.err /\ \A p \in definedPins(config, "analog") :
                                 assignedPins'[p] = "analog")

C16_ReleaseReclaim == [][C16_Step]_vars

\* the analog module owns a pin the gpio module had opened and closed
C16_Witness ==
    \E p \in Pins :
        /\ assignedPins[p] = "analog"
        /\ ~gpioOpenPins[p].open
        /\ \E f \in 1 .. Len(files[p]) :
              files[p][f].path[1] = "gpio" /\ ~files[p][f].open

\* C17: after Disable of a module, no pin has an entry in its openPins and
\* every value file an entry held before the call is closed.
C17_Step ==
    /\ (IsCall("Disable") /\ ret'.key = "gpio")
          => \A p \in Pins :
                gpioOpenPins[p].open
                    => /\ ~gpioOpenPins'[p].open
                       /\ gpioOpenPins[p].valueFile # NilFile
                             => ~files'[p][gpioOpenPins[p].valueFile].open
    /\ (IsCall("Disable") /\ ret'.key = "analog")
          => \A p \in Pins :
                analogOpenPins[p].open
                    => /\ ~analogOpenPins'[p].open
                       /\ analogOpenPins[p].valueFile # NilFile
                             => ~files'[p][analogOpenPins[p].valueFile].open

C17_DisableCloses == [][C17_Step]_vars

\* Disable called twice in a row returns no error either time, and the
\* second call leaves the state the first one left
Idempotent(d1, d2) == ~d1.err /\ ~d2.err /\ d2.st = d1.st

\* C18: in every state, for the gpio, the analog and the i2c module, a
\* second Disable right after a Disable returns no error and changes
\* nothing (no unexport of the gpio module made to fail).
C18_DisableIdempotent ==
    /\ LET d1 == GPIODisable(Cur, {})
       IN  Idempotent(d1, GPIODisable(d1.st, {}))
    /\ LET d1 == AnalogDisable(Cur)
       IN  Idempotent(d1, AnalogDisable(d1.st))
    /\ LET d1 == I2CDisable(Cur, "i2ca")
       IN  Idempotent(d1, I2CDisable(d1.st, "i2ca"))

\* Disable of the analog module was called on open pins it owned, and
\* Disable was called again
C18_Witness ==
    /\ ret.op = "Disable"
    /\ ret.key = "analog"
    /\ \E p \in Pins : analogOpenPins[p].open /\ assignedPins[p] = NoModule
    /\ AnalogDisable(Cur).st = Cur

\* C19: a call in which a step fails returns an error: DigitalWrite when
\* the seek or the write fails or the entry has no value file, PinMode
\* when a write to the unexport, export or direction file or the open of
\* the value file fails, Init when the Enable of a module fails.
C19_Step ==
    /\ IsCall("DigitalWrite")
          => ((ret'.faults # {} \/ (OldPin.open /\ OldPin.valueFile = NilFile))
                 => ret'.err)
    /\ IsCall("PinMode") => (ret'.faults # {} => ret'.err)
    /\ IsCall("Init") => (ret'.failing # {} => ret'.err)

C19_NoErrorSwallowed == [][C19_Step]_vars

\* PinMode returned an error because the pin is not in definedPins, or
\* because AssignPin refused it: the pin is then still owned by another
\* module
FailedBeforeExport ==
    /\ IsCall("PinMode")
    /\ ret'.err
    /\ \/ ret'.pin \notin definedPins(config, "gpio")
       \/ assignedPins'[ret'.pin] \notin {NoModule, "gpio"}

\* C20: a PinMode that fails on a pin outside definedPins, or on the
\* refusal of the assign, leaves the registry, openPins, the value files
\* and the export state as they were.
C20_FailedPinModeFrame == [][FailedBeforeExport => ProgramUnchanged]_vars

\* a pin a failed PinMode left half-open: it has an entry in openPins of
\* the gpio module whose value file was never opened
HalfOpen(p) == gpioOpenPins[p].open /\ gpioOpenPins[p].valueFile = NilFile

\* the pin has no entry in openPins and no owner after the step
ClosedAfter(p) == ~gpioOpenPins'[p].open /\ assignedPins'[p] = NoModule

\* C21: on a pin a failed PinMode left half-open, a ClosePin in which no
\* operating-system call is made to fail returns no error and leaves the
\* pin without an entry in openPins and without an owner, and so does a
\* Disable of the gpio module for every such pin.
C21_Step ==
    /\ (IsCall("ClosePin") /\ HalfOpen(ret'.pin) /\ ret'.faults = {})
          => (~ret'.err /\ ClosedAfter(ret'.pin))
    /\ (IsCall("Disable") /\ ret'.key = "gpio" /\ ret'.failing = {})
          => \A p \in Pins : HalfOpen(p) => ClosedAfter(p)

C21_HalfOpenRecovers == [][C21_Step]_vars

\* both goroutines have returned
Joined == conc.active /\ \A i \in Threads : conc.t[i].pc = "done"

\* the call of goroutine i
CallOf(i) ==
    [op |-> conc.t[i].op, pin |-> conc.t[i].pin, mode |-> conc.t[i].mode,
     value |-> conc.t[i].value]

\* what the two goroutines left and returned
Outcome == [view |-> View(Cur), erra |-> conc.t[1].err, errb |-> conc.t[2].err]

\* what the two calls leave and return when the second runs after the first
\* has returned, in either order
Serial ==
    LET ba == InOrder(conc.start, CallOf(2), CallOf(1))
    IN  {InOrder(conc.start, CallOf(1), CallOf(2)),
         [view |-> ba.view, erra |-> ba.errb, errb |-> ba.erra]}

\* every entry of openPins of state s holds no closed file, and every pin
\* the gpio module owns has an entry
Consistent(s) ==
    \A p \in Pins :
        /\ (s.gpioOpenPins[p].open /\ s.gpioOpenPins[p].valueFile # NilFile)
              => s.files[p][s.gpioOpenPins[p].valueFile].open
        /\ s.assignedPins[p] = "gpio" => s.gpioOpenPins[p].open

\* C22: two calls of PinMode, ClosePin or DigitalWrite that two goroutines
\* make on one pin at the same time never stop the program, and once both
\* have returned, the state and the two results are those of the two calls
\* made one after the other in some order; no entry of openPins then holds
\* a closed file and no pin owned by the gpio module is without an entry,
\* when that was so before the calls.
C22_Serializable ==
    /\ ~conc.crashed
    /\ Joined => /\ Outcome \in Serial
                 /\ Consistent(conc.start) => Consistent(Cur)

\* the pins of the gpio module whose number is exported in state s
ExportedPins(s) ==
    {p \in definedPins(s.config, "gpio") : gpioLogical(s.config, p) \in s.exported}

\* C23: under calls of PinMode, ClosePin and Disable of the gpio module,
\* with operating-system calls failing in them, every pin of the module
\* that is exported has an owner; a PinMode that exports the pin leaves
\* the gpio module as its owner, and a ClosePin that removes the owner
\* leaves the pin unexported.
C23_Step ==
    /\ \A p \in ExportedPins(After) : assignedPins'[p] # NoModule
    /\ (IsCall("PinMode") /\ ret'.pin \in ExportedPins(After) \ ExportedPins(Cur))
          => assignedPins'[ret'.pin] = "gpio"
    /\ (IsCall("ClosePin") /\ Owner(ret'.pin) # NoModule
          /\ assignedPins'[ret'.pin] = NoModule)
          => ret'.pin \notin ExportedPins(After)

C23_ExportedOwned == [][C23_Step]_vars

\* a ClosePin failed at the unexport and the pin is exported and owned
C23_Witness ==
    /\ ret.op = "ClosePin"
    /\ ret.err
    /\ ret.faults = {"unexport"}
    /\ ret.pin \in ExportedPins(Cur)
    /\ assignedPins[ret.pin] = "gpio"

\* the value file the module that opened file f of pin p holds for the pin
CachedFile(p, f) ==
    IF files[p][f].path[1] = "gpio"
    THEN IF gpioOpenPins[p].open THEN gpioOpenPins[p].valueFile ELSE NilFile
    ELSE IF analogOpenPins[p].open THEN analogOpenPins[p].valueFile ELSE NilFile

\* C24: every value file a module has opened for a pin and not closed is
\* the file cached in the module's openPins entry of the pin.
C24_OneLiveHandle ==
    \A p \in Pins : \A f \in 1 .. Len(files[p]) :
        files[p][f].open => CachedFile(p, f) = f

\* C25: every entry of the openPins of the gpio module holds a value file;
\* a PinMode that succeeds leaves an entry with the mode of the call, and
\* a PinMode that returns an error on a pin without an entry leaves the
\* pin without an entry.
C25_Step ==
    /\ \A p \in Pins : gpioOpenPins'[p].open => gpioOpenPins'[p].valueFile # NilFile
    /\ (IsCall("PinMode") /\ ~ret'.err)
          => (gpioOpenPins'[ret'.pin].open /\ gpioOpenPins'[ret'.pin].mode = ret'.mode)
    /\ (IsCall("PinMode") /\ ret'.err /\ ~OldPin.open) => ~gpioOpenPins'[ret'.pin].open

C25_EntriesFromSuccess == [][C25_Step]_vars

\* C26: Disable of a module leaves every registry entry of another module
\* as it was.
C26_DisableFrame ==
    [][IsCall("Disable")
         => \A p \in Pins :
               Owner(p) \notin {NoModule, ret'.key} => assignedPins'[p] = Owner(p)]_vars


====
